---- MODULE Spec2Model ----
(***************************************************************************)
(* The "Total" arithmetic game.                                            *)
(*                                                                         *)
(* Spec: the puzzle session, i.e. the state held by the GameScreen         *)
(* component (src/screens/GameScreen.tsx), the pure game logic it calls    *)
(* (GameLogicService, src/unnamed/part_000), the timers it starts and the  *)
(* level progression through the StorageService (src/unnamed/part_001).    *)
(* One action per handler, timer callback or settled await; every action   *)
(* includes the React effects that run when the state it sets commits (the *)
(* win check of GameScreen.tsx:106-111 and the puzzle load of              *)
(* GameScreen.tsx:91-101), since React flushes them before the next event  *)
(* is handled.                                                             *)
(* ProgressSpec: the same session from level 2 on a storage that may fail. *)
(* StoreSpec: the StorageService under direct calls.                       *)
(* PureSpec: the GameLogicService methods under direct calls.              *)
(***************************************************************************)
EXTENDS Integers, Sequences, FiniteSets, TLC

\* ------------------------------------------------------------------ bounds
\* Pending setTimeout(..., 600) callbacks of invalid moves
MaxInvalidTimers == 1
\* Pending setTimeout(..., 800) callbacks of the win check
MaxShowTimers == 2
\* Confirmations of a completion not yet carried out: pending onNextLevel
\* timers and nextLevel calls in flight
MaxPendingNext == 1
\* Operands of a direct call of validateDivision or performCalculation range
\* over -MaxOperand..MaxOperand
MaxOperand == 6
\* Level numbers of a direct call of generatePuzzle range over 1..MaxLevelNum
\* and the level 9999 of the specification's scenario 5
MaxLevelNum == 12
\* StorageService calls in flight at a time
MaxTasks == 1
\* AsyncStorage operations that fail in one run of the storage service or of
\* the level progression
MaxFaults == 1
\* Levels passed to direct StorageService calls range over -1..MaxStoredLevel
MaxStoredLevel == 2
\* Hints are asked for up to MaxHintTiles tiles of values 0..MaxHintValue
\* and targets 0..MaxHintTarget.
MaxHintTiles == 3
MaxHintValue == 3
MaxHintTarget == 5
\* The display grid is asked for puzzles of 1..MaxInitialTiles tiles.
MaxInitialTiles == 9
\* Where calls overlap, up to MaxOverlap of them are under way at a time.
MaxOverlap == 2
\* The current level of the player who replays level 1.
ReplayProgress == 4
\* The levels a session is played at: the authored levels and a level
\* without authored data.  The fallback puzzle depends on the level number
\* modulo 5 only, so level 5 stands for every unauthored level that is a
\* multiple of 5.  nextLevel does not leave this set.
PlayedLevels == {1, 2, 3, 5}
\* The levels a session can be at: those, and the unauthored level 4, whose
\* completion leads to level 5.
SessionLevels == PlayedLevels \cup {4}

VARIABLES
  level,              \* useState level                     GameScreen.tsx:60
  targetNumber,       \* useState targetNumber              GameScreen.tsx:61
  availableNumbers,   \* useState availableNumbers (array)  GameScreen.tsx:62
  initialGridSize,    \* useState initialGridSize           GameScreen.tsx:63
  originalPuzzle,     \* useState originalPuzzle            GameScreen.tsx:64
  selectedNumber1,    \* GameScreen.tsx:67
  selectedOperation,  \* GameScreen.tsx:68
  selectedNumber2,    \* GameScreen.tsx:69
  gameWon,            \* GameScreen.tsx:72
  showLevelComplete,  \* GameScreen.tsx:73
  invalidOperation,   \* GameScreen.tsx:74
  gameHistory,        \* GameScreen.tsx:77
  invalidTimers,      \* pending setTimeout(..., 600) callbacks  GameScreen.tsx:167
  showTimers,         \* pending setTimeout(..., 800) callbacks  GameScreen.tsx:109
  pendingNext,        \* pending onNextLevel calls, by the level their closure holds
  lastOp,             \* history: the handler or callback that ran last
  pre,                \* history: <<state before the latest reduction>>, kept while
                      \* that reduction is the latest tile-set change but one undo
  run,                \* history: the shape of the moves since the puzzle was loaded
  call,               \* the latest call of a pure GameLogicService method:
                      \* its name, arguments and return value
  store,              \* AsyncStorage: the items under the keys CURRENT_LEVEL
                      \* and COMPLETED_LEVELS            part_001:5-8
  tasks,              \* the StorageService calls in flight, each suspended
                      \* at an await of AsyncStorage
  ret,                \* history: the latest StorageService call that a direct
                      \* caller saw settle, with its outcome
  lastNext,           \* history: the latest nextLevel call that has returned
  clean,              \* history: no AsyncStorage operation has failed and no
                      \* two StorageService calls have been in flight together
  added,              \* history: the levels whose addCompletedLevel resolved
                      \* for a direct caller
  faults,             \* the AsyncStorage operations that may still fail
  env,                \* how the screen is run: how many next-level
                      \* confirmations and StorageService calls may be under
                      \* way at a time, and whether App is mounted around it
  app                 \* App's useState currentLevel and completedLevels
                      \*                                    part_002:36-37

vars == <<level, targetNumber, availableNumbers, initialGridSize, originalPuzzle,
          selectedNumber1, selectedOperation, selectedNumber2, gameWon,
          showLevelComplete, invalidOperation, gameHistory, invalidTimers,
          showTimers, pendingNext, lastOp, pre, run, call, store, tasks, ret,
          lastNext, clean, added, faults, env, app>>

\* The state of the game screen and of its timers.
gameVars == <<level, targetNumber, availableNumbers, initialGridSize, originalPuzzle,
              selectedNumber1, selectedOperation, selectedNumber2, gameWon,
              showLevelComplete, invalidOperation, gameHistory, invalidTimers,
              showTimers, pendingNext, lastOp, pre, run>>
\* What no handler of the game screen touches.
otherVars == <<call, store, tasks, ret, lastNext, clean, added, faults, env, app>>
\* The storage service, its calls in flight and their history.
storeVars == <<store, tasks, ret, lastNext, clean, added, faults, env, app>>

\* The fields a player can observe of the session proper.
sessionVars == <<targetNumber, availableNumbers, initialGridSize, selectedNumber1,
                 selectedOperation, selectedNumber2, gameWon, invalidOperation,
                 gameHistory>>

\* ------------------------------------------------------------- data types
\* null for a NumberObject | null state
NullTile == [value |-> 0, id |-> 0 - 1, position |-> 0 - 1]
\* null for an Operation | null state
NoOperation == "null"
\* null result of gameLogic.performCalculation; no operation on operands
\* >= 0 and no subtraction returns -1
NullResult == 0 - 1
Operations == {"+", "-", "*", "/"}
\* null for the originalPuzzle state
NoPuzzle == [target |-> 0, numbers |-> <<>>]
\* No pure call made yet
NoCall == [fn |-> "none"]

SeqToSet(s) == {s[i] : i \in DOMAIN s}
Ids(s) == {s[i].id : i \in DOMAIN s}
Min(S) == CHOOSE x \in S : \A y \in S : x <= y

\* ------------------------------------------------------- level content
\* The authored level data (app/data/levels.json is not among the sources):
\* the three puzzles of the specification's concrete scenarios 1-3.
levelsData ==
  [n \in 1..3 |->
     CASE n = 1 -> [target |-> 3, numbers |-> <<6, 2, 4>>]
       [] n = 2 -> [target |-> 10, numbers |-> <<5, 5>>]
       [] n = 3 -> [target |-> 7, numbers |-> <<4, 6>>]]

levelExists(levelNum) == levelNum \in DOMAIN levelsData

baseNumbers == <<2, 3, 4, 5>>

\* Faulty variant: levelNum % 4 in place of levelNum % 5
createFallbackPuzzle_mod4(levelNum) ==
  LET numbers == [i \in DOMAIN baseNumbers |->
                    [value |-> baseNumbers[i] + (levelNum % 4),
                     id |-> i - 1,
                     position |-> i - 1]]
  IN [target |-> numbers[1].value + numbers[2].value, numbers |-> numbers]

\* Tile ids are unique strings; the initial tiles' ids are modelled by their
\* index, which the id string contains.
createFallbackPuzzle(levelNum) ==
  LET numbers == [i \in DOMAIN baseNumbers |->
                    [value |-> baseNumbers[i] + (levelNum % 5),
                     id |-> i - 1,
                     position |-> i - 1]]
  IN [target |-> numbers[1].value + numbers[2].value, numbers |-> numbers]

generatePuzzle(levelNum) ==
  IF ~levelExists(levelNum)
  THEN createFallbackPuzzle(levelNum)
  ELSE LET levelData == levelsData[levelNum]
       IN [target |-> levelData.target,
           numbers |-> [i \in DOMAIN levelData.numbers |->
                          [value |-> levelData.numbers[i],
                           id |-> i - 1,
                           position |-> i - 1]]]

\* ------------------------------------------------------------ game logic
\* Faulty variant: num1 % num2 in place of larger % smaller
validateDivision_inOrder(num1, num2) ==
  IF num2 = 0 THEN FALSE
  ELSE (IF num1 >= 0 THEN num1 ELSE 0 - num1)
         % (IF num2 >= 0 THEN num2 ELSE 0 - num2) = 0

validateDivision(num1, num2) ==
  IF num2 = 0 THEN FALSE
  ELSE LET larger == IF num1 >= num2 THEN num1 ELSE num2
           smaller == IF num1 <= num2 THEN num1 ELSE num2
       IN \* larger % 0 is NaN, and NaN === 0 is false
          IF smaller = 0 THEN FALSE
          ELSE (IF larger >= 0 THEN larger ELSE 0 - larger)
                 % (IF smaller >= 0 THEN smaller ELSE 0 - smaller) = 0

\* Faulty variant: num1 - num2 without Math.abs
gameLogic_performCalculation_signed(num1, operation, num2) ==
  CASE operation = "+" -> num1 + num2
    [] operation = "-" -> num1 - num2
    [] operation = "*" -> num1 * num2
    [] operation = "/" ->
         IF ~validateDivision(num1, num2) THEN NullResult
         ELSE LET larger == IF num1 >= num2 THEN num1 ELSE num2
                  smaller == IF num1 <= num2 THEN num1 ELSE num2
              IN larger \div smaller
    [] OTHER -> NullResult

gameLogic_performCalculation(num1, operation, num2) ==
  CASE operation = "+" -> num1 + num2
    [] operation = "-" -> IF num1 >= num2 THEN num1 - num2 ELSE num2 - num1
    [] operation = "*" -> num1 * num2
    [] operation = "/" ->
         IF ~validateDivision(num1, num2) THEN NullResult
         ELSE LET larger == IF num1 >= num2 THEN num1 ELSE num2
                  smaller == IF num1 <= num2 THEN num1 ELSE num2
              IN larger \div smaller
    [] OTHER -> NullResult

\* Faulty variant: Array.every in place of Array.some
isGameWon_every(numbers, target) == \A i \in DOMAIN numbers : numbers[i].value = target

isGameWon(numbers, target) == \E i \in DOMAIN numbers : numbers[i].value = target

\* -------------------------------------------------------------- helpers
\* `${Date.now()}_${Math.random()}`: an id no tile the session still holds
\* (active, in a snapshot, in the original puzzle) has; the least such number.
FreshId ==
  LET used == Ids(availableNumbers) \cup Ids(originalPuzzle.numbers)
              \cup UNION {Ids(gameHistory[i].numbers) : i \in DOMAIN gameHistory}
  IN Min({i \in 0..Cardinality(used) : i \notin used})

RECURSIVE SumOver(_, _)
SumOver(f, S) ==
  IF S = {} THEN 0
  ELSE LET x == CHOOSE y \in S : TRUE IN f[x] + SumOver(f, S \ {x})
PendingNextCount == SumOver(pendingNext, SessionLevels)

\* The modal of LevelCompleteModal.tsx:146 covers the screen while visible:
\* the game's buttons take no touches then.
ModalHidden == showLevelComplete = FALSE

\* run: the shape of the moves since the puzzle was loaded or restarted
\* ("reducing": reductions only, "undoing": reductions, then undos only,
\* "mixed": anything else), the number of those reductions and how many of
\* them are not yet undone.
FreshRun == [phase |-> "reducing", reds |-> 0, owed |-> 0]
MixedRun == [phase |-> "mixed", reds |-> 0, owed |-> 0]

\* Faulty variant: the flag recomputed from the tiles on every run of the effect
WinCheck_recomputes(numbers, target, won) ==
  IF isGameWon(numbers, target)
  THEN /\ showTimers < MaxShowTimers
       /\ gameWon' = TRUE
       /\ showTimers' = showTimers + 1
  ELSE /\ gameWon' = FALSE
       /\ showTimers' = showTimers

\* The win check effect, run when availableNumbers or targetNumber has
\* changed: `won` is the flag the handler left.
WinCheck(numbers, target, won) ==
  IF isGameWon(numbers, target)
  THEN /\ showTimers < MaxShowTimers
       /\ gameWon' = TRUE
       /\ showTimers' = showTimers + 1
  ELSE /\ gameWon' = won
       /\ showTimers' = showTimers

\* Faulty variant: the first number is left selected
resetSelection_keepsFirst ==
  /\ selectedNumber1' = selectedNumber1
  /\ selectedOperation' = NoOperation
  /\ selectedNumber2' = NullTile
  /\ invalidOperation' = FALSE

resetSelection ==
  /\ selectedNumber1' = NullTile
  /\ selectedOperation' = NoOperation
  /\ selectedNumber2' = NullTile
  /\ invalidOperation' = FALSE

\* Faulty variant: the effect does not clear the history
LoadPuzzle_keepsHistory(newLevel) ==
  LET puzzle == generatePuzzle(newLevel)
  IN /\ targetNumber' = puzzle.target
     /\ availableNumbers' = puzzle.numbers
     /\ initialGridSize' = Len(puzzle.numbers)
     /\ originalPuzzle' = [target |-> puzzle.target, numbers |-> puzzle.numbers]
     /\ resetSelection
     /\ showLevelComplete' = FALSE
     /\ gameHistory' = gameHistory
     /\ WinCheck(puzzle.numbers, puzzle.target, FALSE)
     /\ pre' = <<>>
     /\ run' = FreshRun

\* The puzzle load effect followed by the win check.
LoadPuzzle(newLevel) ==
  LET puzzle == generatePuzzle(newLevel)
  IN /\ targetNumber' = puzzle.target
     /\ availableNumbers' = puzzle.numbers
     /\ initialGridSize' = Len(puzzle.numbers)
     /\ originalPuzzle' = [target |-> puzzle.target, numbers |-> puzzle.numbers]
     /\ resetSelection
     /\ showLevelComplete' = FALSE
     /\ gameHistory' = <<>>
     /\ WinCheck(puzzle.numbers, puzzle.target, FALSE)
     /\ pre' = <<>>
     /\ run' = FreshRun

\* -------------------------------------------------------------- storage
\* An AsyncStorage item: getItem gives null for a key never set, else the
\* string that was set.  A level is stored as the decimal digits of
\* level.toString(), the completed levels as the JSON array of the numbers.
NoItem == [present |-> FALSE, value |-> <<>>]
Item(v) == [present |-> TRUE, value |-> v]
EmptyStore == [currentLevel |-> NoItem, completedLevels |-> NoItem]
NoReturn == [fn |-> "none", level |-> 0, outcome |-> "none", read |-> "none",
             value |-> 0, list |-> <<>>]
NoNext == [level |-> 0, log |-> <<>>, failed |-> FALSE, newLevel |-> 0]

RECURSIVE toString(_)
toString(n) == IF n < 10 THEN <<n>> ELSE Append(toString(n \div 10), n % 10)
RECURSIVE parseInt(_)
parseInt(str) ==
  IF Len(str) = 1 THEN str[1]
  ELSE parseInt(SubSeq(str, 1, Len(str) - 1)) * 10 + str[Len(str)]

\* Faulty variant: level < 0 in place of level < 1
levelAccepted_fromZero(lvl) == ~(lvl < 0)

\* The check setCurrentLevel and addCompletedLevel make before any await
levelAccepted(lvl) == ~(lvl < 1)

\* What getCurrentLevel returns once getItem has settled
getCurrentLevel(ok, item) ==
  IF ok THEN (IF item.present THEN parseInt(item.value) ELSE 1) ELSE 1

\* What getCompletedLevels returns once getItem has settled
getCompletedLevels(ok, item) ==
  IF ok THEN (IF item.present THEN item.value ELSE <<>>) ELSE <<>>

includes(list, x) == \E i \in DOMAIN list : list[i] = x

RECURSIVE InsertAsc(_, _)
InsertAsc(sorted, x) ==
  IF sorted = <<>> THEN <<x>>
  ELSE IF x < sorted[1] THEN <<x>> \o sorted
  ELSE <<sorted[1]>> \o InsertAsc(Tail(sorted), x)
RECURSIVE sort(_)
sort(list) ==
  IF list = <<>> THEN <<>>
  ELSE InsertAsc(sort(SubSeq(list, 1, Len(list) - 1)), list[Len(list)])

\* Faulty variant: the list pushed to and not sorted
pushSorted_noSort(completed, lvl) == Append(completed, lvl)

\* completed.push(level); completed.sort((a, b) => a - b)
pushSorted(completed, lvl) == sort(Append(completed, lvl))

\* A StorageService call suspended at an await: its method and argument, the
\* AsyncStorage operation it awaits, the list addCompletedLevel has read, who
\* awaits it ("client": a direct caller, "nextLevel": the nextLevel call of
\* the render at level `closure`) and what that nextLevel call has done so far.
Task(fn, lvl, caller, closure, log) ==
  [fn |-> fn, level |-> lvl,
   pc |-> IF fn = "setCurrentLevel" THEN "setItem" ELSE "getItem",
   completed |-> <<>>, caller |-> caller, closure |-> closure, log |-> log]

Remove(seq, i) == SubSeq(seq, 1, i - 1) \o SubSeq(seq, i + 1, Len(seq))

\* ----------------------------------------------------------------- Init
\* The state once the component has mounted at some level and its effects
\* have run.
\* The store of a player who has completed the levels below c in order and
\* has c as current level; nothing is stored for c = 0.
StoreAt(c) ==
  IF c = 0 THEN EmptyStore
  ELSE [currentLevel |-> Item(toString(c)),
        completedLevels |-> Item([i \in 1..(c - 1) |-> i])]
\* App once the initializeApp of its mount effect has read that store;
\* inits holds the initializeApp calls in flight, each at one of its awaits.
AppAt(c) ==
  [currentLevel |-> getCurrentLevel(TRUE, StoreAt(c).currentLevel),
   completedLevels |-> getCompletedLevels(TRUE, StoreAt(c).completedLevels),
   inits |-> <<>>]
\* The game screen mounted by itself, without onLevelComplete, one next-level
\* confirmation and one StorageService call at a time, nothing stored.
Alone == [next |-> MaxPendingNext, tasks |-> MaxTasks, app |-> FALSE, progress |-> 0,
          levels |-> PlayedLevels]
\* The same with up to MaxOverlap confirmations and calls under way at a time.
Overlapping == [next |-> MaxOverlap, tasks |-> MaxOverlap, app |-> FALSE, progress |-> 0,
                levels |-> PlayedLevels]
\* The game screen mounted by App, for a player whose current level is c.
InApp(c) == [next |-> MaxPendingNext, tasks |-> MaxTasks, app |-> TRUE, progress |-> c,
             levels |-> PlayedLevels]

InitWith(levels, budget, envs) ==
  \E l \in levels, f \in budget, e \in envs :
    LET puzzle == generatePuzzle(l)
        won == isGameWon(puzzle.numbers, puzzle.target)
    IN /\ level = l
       /\ targetNumber = puzzle.target
       /\ availableNumbers = puzzle.numbers
       /\ initialGridSize = Len(puzzle.numbers)
       /\ originalPuzzle = [target |-> puzzle.target, numbers |-> puzzle.numbers]
       /\ selectedNumber1 = NullTile
       /\ selectedOperation = NoOperation
       /\ selectedNumber2 = NullTile
       /\ gameWon = won
       /\ showLevelComplete = FALSE
       /\ invalidOperation = FALSE
       /\ gameHistory = <<>>
       /\ invalidTimers = 0
       /\ showTimers = IF won THEN 1 ELSE 0
       /\ pendingNext = [n \in SessionLevels |-> 0]
       /\ lastOp = "load"
       /\ pre = <<>>
       /\ run = FreshRun
       /\ call = NoCall
       /\ store = StoreAt(e.progress)
       /\ tasks = <<>>
       /\ ret = NoReturn
       /\ lastNext = NoNext
       /\ clean = TRUE
       /\ added = {}
       /\ faults = f
       /\ env = e
       /\ app = AppAt(e.progress)

\* The game screen mounted at any level; storage works.
Init == InitWith(PlayedLevels, {0}, {Alone})

NextCallsInFlight == Len(SelectSeq(tasks, LAMBDA t : t.caller = "nextLevel"))

\* -------------------------------------------------------------- actions
\* Faulty variant: the rejected move clears the selection at once
rejectDivision_clearsSelection(num2Obj) ==
  /\ invalidTimers < MaxInvalidTimers
  /\ invalidOperation' = TRUE
  /\ invalidTimers' = invalidTimers + 1
  /\ selectedNumber1' = NullTile
  /\ selectedOperation' = NoOperation
  /\ selectedNumber2' = NullTile

\* The invalid-division branch of performCalculation; selectNumber's
\* setSelectedNumber2(numberObj) stands.
rejectDivision(num2Obj) ==
  /\ invalidTimers < MaxInvalidTimers
  /\ invalidOperation' = TRUE
  /\ invalidTimers' = invalidTimers + 1
  /\ selectedNumber2' = num2Obj
  /\ UNCHANGED <<selectedNumber1, selectedOperation>>

\* Faulty variant: the snapshot taken after the operands were removed
Snapshot_afterUpdate(num1Obj, operation, num2Obj, result) ==
  [numbers |-> SelectSeq(availableNumbers,
                         LAMBDA n : n.id # num1Obj.id /\ n.id # num2Obj.id),
   gridSize |-> initialGridSize,
   num1 |-> num1Obj,
   num2 |-> num2Obj,
   operation |-> operation,
   result |-> result]

\* The snapshot pushed onto gameHistory
Snapshot(num1Obj, operation, num2Obj, result) ==
  [numbers |-> availableNumbers,
   gridSize |-> initialGridSize,
   num1 |-> num1Obj,
   num2 |-> num2Obj,
   operation |-> operation,
   result |-> result]

\* Faulty variant: result >= 0 in place of result > 0
NewNumbers_pushesZero(num1Obj, num2Obj, result) ==
  LET kept == SelectSeq(availableNumbers,
                        LAMBDA n : n.id # num1Obj.id /\ n.id # num2Obj.id)
  IN IF result >= 0
     THEN Append(kept, [value |-> result,
                        id |-> FreshId,
                        position |-> num1Obj.position])
     ELSE kept

\* Faulty variant: the result placed in the second operand's slot
NewNumbers_secondSlot(num1Obj, num2Obj, result) ==
  LET kept == SelectSeq(availableNumbers,
                        LAMBDA n : n.id # num1Obj.id /\ n.id # num2Obj.id)
  IN IF result > 0
     THEN Append(kept, [value |-> result,
                        id |-> FreshId,
                        position |-> num2Obj.position])
     ELSE kept

\* Faulty variant: the result placed at its array index, not in a freed slot
NewNumbers_atArrayIndex(num1Obj, num2Obj, result) ==
  LET kept == SelectSeq(availableNumbers,
                        LAMBDA n : n.id # num1Obj.id /\ n.id # num2Obj.id)
  IN IF result > 0
     THEN Append(kept, [value |-> result,
                        id |-> FreshId,
                        position |-> Len(kept)])
     ELSE kept

\* newNumbers: the operands filtered out by id, the result pushed at the
\* first operand's position
\* Faulty variant: the operands are filtered out by value, not by id
NewNumbers_filterByValue(num1Obj, num2Obj, result) ==
  LET kept == SelectSeq(availableNumbers,
                        LAMBDA n : n.value # num1Obj.value /\ n.value # num2Obj.value)
  IN IF result > 0
     THEN Append(kept, [value |-> result,
                        id |-> FreshId,
                        position |-> num1Obj.position])
     ELSE kept

NewNumbers(num1Obj, num2Obj, result) ==
  LET kept == SelectSeq(availableNumbers,
                        LAMBDA n : n.id # num1Obj.id /\ n.id # num2Obj.id)
  IN IF result > 0
     THEN Append(kept, [value |-> result,
                        id |-> FreshId,
                        position |-> num1Obj.position])
     ELSE kept

performCalculation(num1Obj, operation, num2Obj) ==
  LET num1 == num1Obj.value
      num2 == num2Obj.value
  IN IF operation = "/" /\ ~validateDivision(num1, num2)
     THEN /\ rejectDivision(num2Obj)
          /\ lastOp' = "invalid"
          /\ pre' = <<>>
          /\ UNCHANGED <<availableNumbers, gameHistory, gameWon, showTimers, run>>
     ELSE LET result == gameLogic_performCalculation(num1, operation, num2)
          IN IF result = NullResult
             THEN /\ selectedNumber2' = num2Obj
                  /\ UNCHANGED <<selectedNumber1, selectedOperation, availableNumbers,
                                 gameHistory, gameWon, showTimers, run,
                                 invalidOperation, invalidTimers, lastOp, pre>>
             ELSE /\ gameHistory' = Append(gameHistory,
                                      Snapshot(num1Obj, operation, num2Obj, result))
                  /\ availableNumbers' = NewNumbers(num1Obj, num2Obj, result)
                  /\ resetSelection
                  /\ WinCheck(NewNumbers(num1Obj, num2Obj, result),
                              targetNumber, gameWon)
                  /\ lastOp' = "reduce"
                  /\ pre' = <<[numbers |-> availableNumbers,
                               gridSize |-> initialGridSize,
                               history |-> gameHistory]>>
                  /\ run' = IF run.phase = "reducing"
                            THEN [run EXCEPT !.reds = @ + 1, !.owed = @ + 1]
                            ELSE MixedRun
                  /\ UNCHANGED invalidTimers

\* Faulty variant: a re-pick before the operation is chosen sets the second
\* number
selectNumber_repickSetsSecond(numberObj) ==
  /\ ModalHidden
  /\ IF selectedNumber1 = NullTile
     THEN /\ selectedNumber1' = numberObj
          /\ lastOp' = "pick"
          /\ pre' = <<>>
          /\ UNCHANGED <<selectedOperation, selectedNumber2, invalidOperation,
                         availableNumbers, gameHistory, gameWon, showTimers,
                         invalidTimers, run>>
     ELSE IF selectedOperation = NoOperation
     THEN /\ selectedNumber2' = numberObj
          /\ lastOp' = "pick"
          /\ pre' = <<>>
          /\ UNCHANGED <<selectedNumber1, selectedOperation, invalidOperation,
                         availableNumbers, gameHistory, gameWon, showTimers,
                         invalidTimers, run>>
     ELSE IF selectedNumber2 = NullTile /\ numberObj.id # selectedNumber1.id
     THEN performCalculation(selectedNumber1, selectedOperation, numberObj)
     ELSE UNCHANGED <<selectedNumber1, selectedOperation, selectedNumber2,
                      invalidOperation, availableNumbers, gameHistory, gameWon,
                      showTimers, invalidTimers, run, lastOp, pre>>
  /\ UNCHANGED <<level, targetNumber, initialGridSize, originalPuzzle,
                 showLevelComplete, pendingNext>>
  /\ UNCHANGED otherVars

\* Faulty variant: the second pick is not compared with the first by id
selectNumber_noIdCheck(numberObj) ==
  /\ ModalHidden
  /\ IF selectedNumber1 = NullTile \/ selectedOperation = NoOperation
     THEN /\ selectedNumber1' = numberObj
          /\ lastOp' = "pick"
          /\ pre' = <<>>
          /\ UNCHANGED <<selectedOperation, selectedNumber2, invalidOperation,
                         availableNumbers, gameHistory, gameWon, showTimers,
                         invalidTimers, run>>
     ELSE IF selectedNumber2 = NullTile
     THEN performCalculation(selectedNumber1, selectedOperation, numberObj)
     ELSE UNCHANGED <<selectedNumber1, selectedOperation, selectedNumber2,
                      invalidOperation, availableNumbers, gameHistory, gameWon,
                      showTimers, invalidTimers, run, lastOp, pre>>
  /\ UNCHANGED <<level, targetNumber, initialGridSize, originalPuzzle,
                 showLevelComplete, pendingNext>>
  /\ UNCHANGED otherVars

selectNumber(numberObj) ==
  /\ ModalHidden
  /\ IF selectedNumber1 = NullTile \/ selectedOperation = NoOperation
     THEN /\ selectedNumber1' = numberObj
          /\ lastOp' = "pick"
          /\ pre' = <<>>
          /\ UNCHANGED <<selectedOperation, selectedNumber2, invalidOperation,
                         availableNumbers, gameHistory, gameWon, showTimers,
                         invalidTimers, run>>
     ELSE IF selectedNumber2 = NullTile /\ numberObj.id # selectedNumber1.id
     THEN performCalculation(selectedNumber1, selectedOperation, numberObj)
     ELSE UNCHANGED <<selectedNumber1, selectedOperation, selectedNumber2,
                      invalidOperation, availableNumbers, gameHistory, gameWon,
                      showTimers, invalidTimers, run, lastOp, pre>>
  /\ UNCHANGED <<level, targetNumber, initialGridSize, originalPuzzle,
                 showLevelComplete, pendingNext>>
  /\ UNCHANGED otherVars

selectOperation(operation) ==
  /\ ModalHidden
  /\ IF selectedNumber1 # NullTile
     THEN /\ selectedOperation' = operation
          /\ selectedNumber2' = NullTile
          /\ lastOp' = "operation"
          /\ pre' = <<>>
     ELSE UNCHANGED <<selectedOperation, selectedNumber2, lastOp, pre>>
  /\ UNCHANGED <<level, targetNumber, availableNumbers, initialGridSize,
                 originalPuzzle, selectedNumber1, gameWon, showLevelComplete,
                 invalidOperation, gameHistory, invalidTimers, showTimers,
                 pendingNext, run>>
  /\ UNCHANGED otherVars

\* Faulty variant: the invalid signal is left on
handleClear_keepsInvalid ==
  /\ ModalHidden
  /\ IF selectedNumber1 # NullTile
     THEN /\ selectedNumber1' = NullTile
          /\ selectedOperation' = NoOperation
          /\ selectedNumber2' = NullTile
          /\ UNCHANGED invalidOperation
          /\ lastOp' = "clear"
          /\ pre' = <<>>
     ELSE UNCHANGED <<selectedNumber1, selectedOperation, selectedNumber2,
                      invalidOperation, lastOp, pre>>
  /\ UNCHANGED <<level, targetNumber, availableNumbers, initialGridSize,
                 originalPuzzle, gameWon, showLevelComplete, gameHistory,
                 invalidTimers, showTimers, pendingNext, run>>
  /\ UNCHANGED otherVars

\* ActionButtons.handleClear: onClear (resetSelection) when canClear
handleClear ==
  /\ ModalHidden
  /\ IF selectedNumber1 # NullTile
     THEN /\ resetSelection
          /\ lastOp' = "clear"
          /\ pre' = <<>>
     ELSE UNCHANGED <<selectedNumber1, selectedOperation, selectedNumber2,
                      invalidOperation, lastOp, pre>>
  /\ UNCHANGED <<level, targetNumber, availableNumbers, initialGridSize,
                 originalPuzzle, gameWon, showLevelComplete, gameHistory,
                 invalidTimers, showTimers, pendingNext, run>>
  /\ UNCHANGED otherVars

\* Faulty variant: prev.slice(0) in place of prev.slice(0, -1)
PopHistory_popsNothing == gameHistory
\* Faulty variant: prev.slice(1) in place of prev.slice(0, -1)
PopHistory_dropsFirst == Tail(gameHistory)

\* prev.slice(0, -1)
PopHistory == SubSeq(gameHistory, 1, Len(gameHistory) - 1)

undoLastMove ==
  /\ ModalHidden
  /\ IF Len(gameHistory) = 0
     THEN UNCHANGED <<availableNumbers, initialGridSize, gameHistory,
                      selectedNumber1, selectedOperation, selectedNumber2,
                      invalidOperation, gameWon, showTimers, run, lastOp, pre>>
     ELSE LET lastState == gameHistory[Len(gameHistory)]
          IN /\ availableNumbers' = lastState.numbers
             /\ initialGridSize' = lastState.gridSize
             /\ gameHistory' = PopHistory
             /\ resetSelection
             /\ WinCheck(lastState.numbers, targetNumber, gameWon)
             /\ lastOp' = "undo"
             /\ pre' = IF lastOp = "reduce" THEN pre ELSE <<>>
             /\ run' = IF run.phase # "mixed"
                       THEN [run EXCEPT !.phase = "undoing", !.owed = @ - 1]
                       ELSE run
  /\ UNCHANGED <<level, targetNumber, originalPuzzle, showLevelComplete,
                 invalidTimers, pendingNext>>
  /\ UNCHANGED otherVars

\* Faulty variant: setGameHistory([]) left out
restartLevel_keepsHistory ==
  /\ ModalHidden
  /\ LET puzzle == IF originalPuzzle # NoPuzzle
                   THEN originalPuzzle
                   ELSE generatePuzzle(level)
     IN /\ targetNumber' = puzzle.target
        /\ availableNumbers' = puzzle.numbers
        /\ initialGridSize' = Len(puzzle.numbers)
        /\ originalPuzzle' = [target |-> puzzle.target, numbers |-> puzzle.numbers]
        /\ resetSelection
        /\ showLevelComplete' = FALSE
        /\ gameHistory' = gameHistory
        /\ WinCheck(puzzle.numbers, puzzle.target, FALSE)
  /\ lastOp' = "restart"
  /\ pre' = <<>>
  /\ run' = FreshRun
  /\ UNCHANGED <<level, invalidTimers, pendingNext>>
  /\ UNCHANGED otherVars

restartLevel ==
  /\ ModalHidden
  /\ LET puzzle == IF originalPuzzle # NoPuzzle
                   THEN originalPuzzle
                   ELSE generatePuzzle(level)
     IN /\ targetNumber' = puzzle.target
        /\ availableNumbers' = puzzle.numbers
        /\ initialGridSize' = Len(puzzle.numbers)
        /\ originalPuzzle' = [target |-> puzzle.target, numbers |-> puzzle.numbers]
        /\ resetSelection
        /\ showLevelComplete' = FALSE
        /\ gameHistory' = <<>>
        /\ WinCheck(puzzle.numbers, puzzle.target, FALSE)
  /\ lastOp' = "restart"
  /\ pre' = <<>>
  /\ run' = FreshRun
  /\ UNCHANGED <<level, invalidTimers, pendingNext>>
  /\ UNCHANGED otherVars

\* The callback of setTimeout(..., 600) in performCalculation
invalidTimerFires ==
  /\ invalidTimers > 0
  /\ invalidTimers' = invalidTimers - 1
  /\ resetSelection
  /\ lastOp' = "invalidTimer"
  /\ pre' = <<>>
  /\ UNCHANGED <<level, targetNumber, availableNumbers, initialGridSize,
                 originalPuzzle, gameWon, showLevelComplete, gameHistory,
                 showTimers, pendingNext, run>>
  /\ UNCHANGED otherVars

\* The callback of setTimeout(..., 800) in the win check effect
showTimerFires ==
  /\ showTimers > 0
  /\ showTimers' = showTimers - 1
  /\ showLevelComplete' = TRUE
  /\ lastOp' = "showTimer"
  /\ pre' = <<>>
  /\ UNCHANGED <<level, targetNumber, availableNumbers, initialGridSize,
                 originalPuzzle, selectedNumber1, selectedOperation,
                 selectedNumber2, gameWon, invalidOperation, gameHistory,
                 invalidTimers, pendingNext, run>>
  /\ UNCHANGED otherVars

\* LevelCompleteModal.handleNextLevel: the button of the visible modal starts
\* setTimeout(() => onNextLevel(), 100) with the nextLevel of this render.
handleNextLevel ==
  /\ showLevelComplete = TRUE
  /\ level + 1 \in env.levels
  /\ PendingNextCount + NextCallsInFlight < env.next
  /\ pendingNext' = [pendingNext EXCEPT ![level] = @ + 1]
  /\ lastOp' = "tapNext"
  /\ pre' = <<>>
  /\ UNCHANGED <<level, targetNumber, availableNumbers, initialGridSize,
                 originalPuzzle, selectedNumber1, selectedOperation,
                 selectedNumber2, gameWon, showLevelComplete, invalidOperation,
                 gameHistory, invalidTimers, showTimers, run>>
  /\ UNCHANGED otherVars

\* App.handleLevelComplete, the onLevelComplete of a game screen mounted by
\* App: setCurrentLevel(newLevel), and initializeApp() runs up to its first
\* await.
handleLevelComplete(newLevel) ==
  [app EXCEPT !.currentLevel = newLevel,
              !.inits = Append(@, [pc |-> "getCurrentLevel", level |-> 0])]

\* Faulty variant: the new level counted from the level of the latest
\* render, not from the level the call's closure holds
nextLevel_advance_fromCurrent(l, log, failed) ==
  /\ app' = IF env.app THEN handleLevelComplete(level + 1) ELSE app
  /\ level' = level + 1
  /\ LoadPuzzle(level + 1)
  /\ lastOp' = "nextLevel"
  /\ lastNext' = [level |-> l,
                  log |-> log \o <<<<"setLevel", level + 1>>,
                                   <<"onLevelComplete", level + 1>>>>,
                  failed |-> failed,
                  newLevel |-> level + 1]
  /\ UNCHANGED invalidTimers

\* setLevel(newLevel); onLevelComplete?.(newLevel): the level changes, the
\* puzzle load effect runs if it did, and the call returns.
nextLevel_advance(l, log, failed) ==
  /\ app' = IF env.app THEN handleLevelComplete(l + 1) ELSE app
  /\ level' = l + 1
  /\ IF l + 1 # level
     THEN LoadPuzzle(l + 1)
     ELSE UNCHANGED <<targetNumber, availableNumbers, initialGridSize,
                      originalPuzzle, selectedNumber1, selectedOperation,
                      selectedNumber2, gameWon, showLevelComplete,
                      invalidOperation, gameHistory, showTimers, pre, run>>
  /\ lastOp' = "nextLevel"
  /\ lastNext' = [level |-> l,
                  log |-> log \o <<<<"setLevel", l + 1>>,
                                   <<"onLevelComplete", l + 1>>>>,
                  failed |-> failed,
                  newLevel |-> l + 1]
  /\ UNCHANGED invalidTimers

\* The end of nextLevel's try block, both storage calls having resolved
nextLevel_try(l, log) == nextLevel_advance(l, log, FALSE)

\* Faulty variant: the catch block only logs the error
nextLevel_catch_onlyLogs(l, log) ==
  /\ UNCHANGED app
  /\ lastNext' = [level |-> l, log |-> log, failed |-> TRUE, newLevel |-> level]
  /\ UNCHANGED <<level, targetNumber, availableNumbers, initialGridSize,
                 originalPuzzle, selectedNumber1, selectedOperation,
                 selectedNumber2, gameWon, showLevelComplete, invalidOperation,
                 gameHistory, showTimers, pre, run, lastOp, invalidTimers>>

\* nextLevel's catch block, a storage call having rejected
nextLevel_catch(l, log) == nextLevel_advance(l, log, TRUE)

\* The 100 ms timer fires and calls the nextLevel of the render at level l,
\* which runs up to its first await: addCompletedLevel(level) checks the
\* level and awaits the read of the completed levels.
nextLevel(l) ==
  /\ pendingNext[l] > 0
  /\ Len(tasks) < env.tasks
  /\ pendingNext' = [pendingNext EXCEPT ![l] = @ - 1]
  /\ IF levelAccepted(l)
     THEN /\ tasks' = Append(tasks, Task("addCompletedLevel", l, "nextLevel", l, <<>>))
          /\ UNCHANGED <<level, targetNumber, availableNumbers, initialGridSize,
                         originalPuzzle, selectedNumber1, selectedOperation,
                         selectedNumber2, gameWon, showLevelComplete,
                         invalidOperation, gameHistory, showTimers, pre, run,
                         lastOp, invalidTimers, lastNext, app>>
     ELSE /\ nextLevel_catch(l, <<>>)
          /\ UNCHANGED tasks
  /\ UNCHANGED <<call, store, ret, added, clean, faults, env>>

\* A direct call of a StorageService method: setCurrentLevel and
\* addCompletedLevel throw for a level below 1 before any await.
clientCalls(fn, lvl) ==
  /\ Len(tasks) < env.tasks
  /\ IF fn \in {"setCurrentLevel", "addCompletedLevel"} /\ ~levelAccepted(lvl)
     THEN /\ ret' = [fn |-> fn, level |-> lvl, outcome |-> "rejected",
                     read |-> "none", value |-> 0, list |-> <<>>]
          /\ UNCHANGED <<tasks, clean>>
     ELSE /\ tasks' = Append(tasks, Task(fn, lvl, "client", 0, <<>>))
          /\ clean' = (clean /\ tasks = <<>>)
          /\ UNCHANGED ret
  /\ UNCHANGED <<gameVars, call, store, lastNext, added, faults, env, app>>

\* The nextLevel call that awaited task t goes on with its outcome r.
nextLevel_resumes(i, t, r) ==
  LET newLevel == t.closure + 1
  IN IF t.fn = "addCompletedLevel" /\ r.kind = "resolved" /\ levelAccepted(newLevel)
     THEN /\ tasks' = [tasks EXCEPT ![i] =
                         Task("setCurrentLevel", newLevel, "nextLevel", t.closure,
                              Append(t.log, <<"addCompletedLevel", t.closure>>))]
          /\ UNCHANGED <<gameVars, lastNext, app>>
     ELSE /\ tasks' = Remove(tasks, i)
          /\ UNCHANGED pendingNext
          /\ IF t.fn = "setCurrentLevel" /\ r.kind = "resolved"
             THEN nextLevel_try(t.closure,
                                Append(t.log, <<"setCurrentLevel", newLevel>>))
             ELSE nextLevel_catch(t.closure,
                                  IF t.fn = "addCompletedLevel" /\ r.kind = "resolved"
                                  THEN Append(t.log, <<"addCompletedLevel", t.closure>>)
                                  ELSE t.log)

\* Task i leaves its await with the outcome r: it goes on to its next await,
\* or its method returns to whoever awaits it.
Settle(i, ok, r) ==
  LET t == tasks[i]
  IN /\ ok \/ faults > 0
     /\ faults' = IF ok THEN faults ELSE faults - 1
     /\ store' = r.store
     /\ clean' = IF t.caller = "client" THEN clean /\ ok ELSE clean
     /\ added' = IF t.caller = "client" /\ t.fn = "addCompletedLevel"
                    /\ r.kind = "resolved"
                 THEN added \cup {t.level} ELSE added
     /\ IF r.kind = "continue"
        THEN /\ tasks' = [tasks EXCEPT ![i] = r.task]
             /\ UNCHANGED <<gameVars, ret, lastNext, app>>
        ELSE IF t.caller = "client"
        THEN /\ tasks' = Remove(tasks, i)
             /\ ret' = [fn |-> t.fn, level |-> t.level, outcome |-> r.kind,
                        read |-> r.read, value |-> r.value, list |-> r.list]
             /\ UNCHANGED <<gameVars, lastNext, app>>
        ELSE /\ nextLevel_resumes(i, t, r)
             /\ UNCHANGED ret
     /\ UNCHANGED <<call, env>>

\* AsyncStorage.getItem settles for task i: the item is read (ok) or the
\* read rejects.  getCurrentLevel and getCompletedLevels catch the rejection.
getItemSettles(i, ok) ==
  /\ i \in DOMAIN tasks
  /\ tasks[i].pc = "getItem"
  /\ LET t == tasks[i]
         item == IF t.fn = "getCurrentLevel" THEN store.currentLevel
                 ELSE store.completedLevels
         read == IF ~ok THEN "failed" ELSE IF item.present THEN "value" ELSE "absent"
         completed == getCompletedLevels(ok, item)
     IN Settle(i, ok,
          CASE t.fn = "getCurrentLevel" ->
                 [store |-> store, kind |-> "resolved", read |-> read,
                  value |-> getCurrentLevel(ok, item), list |-> <<>>]
            [] t.fn = "getCompletedLevels" ->
                 [store |-> store, kind |-> "resolved", read |-> read,
                  value |-> 0, list |-> completed]
            [] OTHER ->
                 IF ~includes(completed, t.level)
                 THEN [store |-> store, kind |-> "continue",
                       task |-> [t EXCEPT !.pc = "setItem",
                                          !.completed = pushSorted(completed, t.level)]]
                 ELSE [store |-> store, kind |-> "resolved", read |-> read,
                       value |-> 0, list |-> <<>>])

\* AsyncStorage.setItem settles for task i: the item is written (ok) or the
\* write rejects, and setCurrentLevel / addCompletedLevel rethrow.
setItemSettles(i, ok) ==
  /\ i \in DOMAIN tasks
  /\ tasks[i].pc = "setItem"
  /\ LET t == tasks[i]
     IN Settle(i, ok,
          IF ~ok
          THEN [store |-> store, kind |-> "rejected", read |-> "none",
                value |-> 0, list |-> <<>>]
          ELSE IF t.fn = "setCurrentLevel"
          THEN [store |-> [store EXCEPT !.currentLevel = Item(toString(t.level))],
                kind |-> "resolved", read |-> "none", value |-> 0,
                list |-> <<>>]
          ELSE [store |-> [store EXCEPT !.completedLevels = Item(t.completed)],
                kind |-> "resolved", read |-> "none", value |-> 0,
                list |-> <<>>])

Next ==
  \/ \E numberObj \in SeqToSet(availableNumbers) : selectNumber(numberObj)
  \/ \E operation \in Operations : selectOperation(operation)
  \/ handleClear
  \/ undoLastMove
  \/ restartLevel
  \/ invalidTimerFires
  \/ showTimerFires
  \/ handleNextLevel
  \/ \E l \in SessionLevels : nextLevel(l)
  \/ \E i \in DOMAIN tasks, ok \in BOOLEAN : getItemSettles(i, ok)
  \/ \E i \in DOMAIN tasks, ok \in BOOLEAN : setItemSettles(i, ok)

Spec == Init /\ [][Next]_vars

\* ---------------------------------------------------- the display grid
getGridDimensions(numCount) ==
  IF numCount <= 4 THEN [cols |-> 2, rows |-> 2]
  ELSE IF numCount <= 6 THEN [cols |-> 3, rows |-> 2]
  ELSE [cols |-> 3, rows |-> 3]

\* Faulty variant: Math.floor in place of Math.ceil
gridRows_floor(cols, gridSize) ==
  IF cols = 2 THEN 2 ELSE IF cols = 3 THEN gridSize \div 3 ELSE 3

\* The rows of the display grid; Math.ceil(initialGridSize / 3) for 3 columns
gridRows(cols, gridSize) ==
  IF cols = 2 THEN 2 ELSE IF cols = 3 THEN (gridSize + 2) \div 3 ELSE 3

\* The forEach over the active tiles from the i-th on; slot p of the array
\* is grid[p + 1] here.
RECURSIVE placeTiles(_, _, _)
placeTiles(grid, numbers, i) ==
  IF i > Len(numbers) THEN grid
  ELSE LET numberObj == numbers[i]
       IN placeTiles(IF numberObj.position < Len(grid) /\ numberObj.position >= 0
                     THEN [grid EXCEPT ![numberObj.position + 1] = numberObj]
                     ELSE grid,
                     numbers, i + 1)

createDisplayGrid(numbers, gridSize) ==
  LET cols == getGridDimensions(gridSize).cols
      rows == gridRows(cols, gridSize)
      totalPositions == cols * rows
  IN [grid |-> placeTiles([p \in 1..totalPositions |-> NullTile], numbers, 1),
      cols |-> cols]

\* ------------------------------------------------------------ the hint
\* The four parts that generateHint puts into its text
\* "Try <num1> <symbol> <num2> = <result>"; NoHint is its null.
NoHint == [num1 |-> 0, symbol |-> "null", num2 |-> 0, result |-> 0]
operations == <<"+", "-", "*", "/">>
\* The display symbols are the Unicode minus, times and division signs.
getOperationSymbol(operation) ==
  CASE operation = "+" -> "+"
    [] operation = "-" -> "U+2212"
    [] operation = "*" -> "U+00D7"
    [] operation = "/" -> "U+00F7"
Abs(x) == IF x < 0 THEN 0 - x ELSE x
\* bestHint and bestDifference before any candidate: known = FALSE stands
\* for bestDifference = Infinity.
NoBest == [known |-> FALSE, difference |-> 0, hint |-> NoHint]

\* Faulty variant: <= in place of <, so the last of equal candidates wins
closer_orEqual(difference, best) ==
  ~best.known \/ difference <= best.difference

\* difference < bestDifference
closer(difference, best) ==
  ~best.known \/ difference < best.difference

\* The body of the innermost loop, giving the new bestHint, bestDifference
tryOperation(num1, num2, op, target, best) ==
  LET result == gameLogic_performCalculation(num1.value, op, num2.value)
      difference == Abs(result - target)
  IN IF result # NullResult /\ closer(difference, best)
     THEN [known |-> TRUE,
           difference |-> difference,
           hint |-> [num1 |-> num1.value, symbol |-> getOperationSymbol(op),
                     num2 |-> num2.value, result |-> result]]
     ELSE best

\* The three nested loops from (i, j, op) on; i and j count from 1 here.
RECURSIVE hintLoop(_, _, _, _, _, _)
hintLoop(numbers, target, i, j, k, best) ==
  IF i > Len(numbers) THEN best
  ELSE IF j > Len(numbers)
  THEN hintLoop(numbers, target, i + 1, i + 2, 1, best)
  ELSE IF k > Len(operations)
  THEN hintLoop(numbers, target, i, j + 1, 1, best)
  ELSE hintLoop(numbers, target, i, j, k + 1,
                tryOperation(numbers[i], numbers[j], operations[k],
                             target, best))

generateHint(numbers, target) ==
  IF Len(numbers) < 2
  THEN NoHint
  ELSE hintLoop(numbers, target, 1, 2, 1, NoBest).hint

\* ------------------------------------------------- the pure game logic
\* Direct calls of the GameLogicService methods on arguments of any sign,
\* each recorded with the value it returns.
Operands == (0 - MaxOperand)..MaxOperand
QueriedLevels == (1..MaxLevelNum) \cup {9999}

callValidateDivision(num1, num2) ==
  /\ call' = [fn |-> "validateDivision", num1 |-> num1, num2 |-> num2,
              out |-> validateDivision(num1, num2)]
  /\ UNCHANGED <<gameVars, storeVars>>

callPerformCalculation(num1, operation, num2) ==
  /\ call' = [fn |-> "performCalculation", num1 |-> num1,
              operation |-> operation, num2 |-> num2,
              out |-> gameLogic_performCalculation(num1, operation, num2)]
  /\ UNCHANGED <<gameVars, storeVars>>

callGeneratePuzzle(levelNum) ==
  /\ call' = [fn |-> "generatePuzzle", levelNum |-> levelNum,
              out |-> generatePuzzle(levelNum)]
  /\ UNCHANGED <<gameVars, storeVars>>

\* Tile lists as a puzzle has them: ids and positions in index order.
TilesOf(values) ==
  [i \in DOMAIN values |-> [value |-> values[i], id |-> i, position |-> i - 1]]
HintValues == UNION {[1..n -> 0..MaxHintValue] : n \in 0..MaxHintTiles}

\* The service keeps no state between calls, so the hint is asked once, of
\* the service as constructed.
callGenerateHint(values, target) ==
  /\ call = NoCall
  /\ call' = [fn |-> "generateHint", availableNumbers |-> TilesOf(values),
              targetNumber |-> target,
              out |-> generateHint(TilesOf(values), target)]
  /\ UNCHANGED <<gameVars, storeVars>>

\* The tiles left of a puzzle of gridSize tiles: those at the positions
\* given, in position order.
RECURSIVE Ascending(_)
Ascending(S) ==
  IF S = {} THEN <<>> ELSE <<Min(S)>> \o Ascending(S \ {Min(S)})
TilesAt(positions) ==
  [i \in 1..Cardinality(positions) |->
     [value |-> Ascending(positions)[i] + 1,
      id |-> Ascending(positions)[i],
      position |-> Ascending(positions)[i]]]

\* The service keeps no state between calls, so the grid is asked for once.
callCreateDisplayGrid(positions, gridSize) ==
  /\ call = NoCall
  /\ call' = [fn |-> "createDisplayGrid", availableNumbers |-> TilesAt(positions),
              initialGridSize |-> gridSize,
              dimensions |-> getGridDimensions(gridSize),
              out |-> createDisplayGrid(TilesAt(positions), gridSize)]
  /\ UNCHANGED <<gameVars, storeVars>>

PureInit == InitWith({1}, {0}, {Alone})

PureNext ==
  \/ \E num1 \in Operands, num2 \in Operands : callValidateDivision(num1, num2)
  \/ \E num1 \in Operands, num2 \in Operands, operation \in Operations :
       callPerformCalculation(num1, operation, num2)
  \/ \E levelNum \in QueriedLevels : callGeneratePuzzle(levelNum)
  \/ \E values \in HintValues, target \in 0..MaxHintTarget :
       callGenerateHint(values, target)

PureSpec == PureInit /\ [][PureNext]_vars

\* ------------------------------------------------- the grid on display
\* The game screen of Spec, which renders createDisplayGrid of its tiles and
\* grid size in every state, and next to it the service asked directly for
\* the grid of what is left of a puzzle of 1..MaxInitialTiles tiles.  The
\* direct call is made on a screen just mounted, and the screen is played
\* only while no direct call was made, which keeps the two apart.
GridNext ==
  \/ call = NoCall /\ Next
  \/ /\ Init
     /\ \E gridSize \in 1..MaxInitialTiles :
          \E positions \in SUBSET (0..(gridSize - 1)) :
            callCreateDisplayGrid(positions, gridSize)

GridSpec == Init /\ [][GridNext]_vars

\* ------------------------------------------ the storage service by itself
\* Direct callers of the StorageService methods, up to MaxTasks calls in
\* flight at a time, on a store that starts empty.
StoredLevels == (0 - 1)..MaxStoredLevel
StoreInit == InitWith({1}, 0..MaxFaults, {Alone})

StoreNext ==
  \/ \E fn \in {"setCurrentLevel", "addCompletedLevel"}, lvl \in StoredLevels :
       clientCalls(fn, lvl)
  \/ \E fn \in {"getCurrentLevel", "getCompletedLevels"} : clientCalls(fn, 0)
  \/ \E i \in DOMAIN tasks, ok \in BOOLEAN : getItemSettles(i, ok)
  \/ \E i \in DOMAIN tasks, ok \in BOOLEAN : setItemSettles(i, ok)

\* ------------------------------------------------ the level progression
\* The game screen mounted at level 2, which has a next level, on a storage
\* of which up to MaxFaults operations fail.
ProgressInit == InitWith({2}, 0..MaxFaults, {Alone})
ProgressSpec == ProgressInit /\ [][Next]_vars

StoreSpec == StoreInit /\ [][StoreNext]_vars

\* ------------------------------------------------ the screen inside App
\* The first await of initializeApp call i settles: getCurrentLevel gives
\* the stored level, or 1 if nothing is stored or the read fails.
initializeApp_getCurrentLevel(i, ok) ==
  /\ i \in DOMAIN app.inits
  /\ app.inits[i].pc = "getCurrentLevel"
  /\ ok \/ faults > 0
  /\ faults' = IF ok THEN faults ELSE faults - 1
  /\ app' = [app EXCEPT !.inits[i] =
                [pc |-> "getCompletedLevels",
                 level |-> getCurrentLevel(ok, store.currentLevel)]]
  /\ UNCHANGED <<gameVars, call, store, tasks, ret, lastNext, clean, added, env>>

\* The second await settles, and initializeApp sets App's current level and
\* completed levels to what it has read.
initializeApp_getCompletedLevels(i, ok) ==
  /\ i \in DOMAIN app.inits
  /\ app.inits[i].pc = "getCompletedLevels"
  /\ ok \/ faults > 0
  /\ faults' = IF ok THEN faults ELSE faults - 1
  /\ app' = [currentLevel |-> app.inits[i].level,
             completedLevels |-> getCompletedLevels(ok, store.completedLevels),
             inits |-> Remove(app.inits, i)]
  /\ UNCHANGED <<gameVars, call, store, tasks, ret, lastNext, clean, added, env>>

AppNext ==
  \/ Next
  \/ \E i \in DOMAIN app.inits, ok \in BOOLEAN : initializeApp_getCurrentLevel(i, ok)
  \/ \E i \in DOMAIN app.inits, ok \in BOOLEAN : initializeApp_getCompletedLevels(i, ok)

\* The Play button of the home screen pressed by a player whose current
\* level is 2, on a storage of which up to MaxFaults operations fail.
AppInit == InitWith({2}, 0..MaxFaults, {InApp(2)})
AppSpec == AppInit /\ [][AppNext]_vars

\* Level 1 chosen on the levels screen by a player whose current level is
\* ReplayProgress; storage works.
ReplayInit == InitWith({1}, {0}, {InApp(ReplayProgress)})
ReplaySpec == ReplayInit /\ [][AppNext]_vars

\* ------------------------------------------------ play without restart
\* The game screen mounted at level 1 and played without the restart button.
\* gameWon is then reset by the load of a puzzle only, and set by the win
\* check after every change of the tile set, so it tells whether the puzzle
\* of the level has had a tile equal to its target since it was loaded.
NoRestartInit == InitWith({1}, {0}, {Alone})

NoRestartNext ==
  \/ \E numberObj \in SeqToSet(availableNumbers) : selectNumber(numberObj)
  \/ \E operation \in Operations : selectOperation(operation)
  \/ handleClear
  \/ undoLastMove
  \/ invalidTimerFires
  \/ showTimerFires
  \/ handleNextLevel
  \/ \E l \in SessionLevels : nextLevel(l)
  \/ \E i \in DOMAIN tasks, ok \in BOOLEAN : getItemSettles(i, ok)
  \/ \E i \in DOMAIN tasks, ok \in BOOLEAN : setItemSettles(i, ok)

NoRestartSpec == NoRestartInit /\ [][NoRestartNext]_vars

\* ------------------------------------------------ into a fallback level
\* The game screen mounted by itself at level 2 or at the unauthored level
\* 4, from which the next level is 3 or the fallback level 5.
IntoFallback == [next |-> MaxPendingNext, tasks |-> MaxTasks, app |-> FALSE,
                 progress |-> 0, levels |-> {3, 5}]
LevelChangeInit == InitWith({2, 4}, {0}, {IntoFallback})
\* The session is played forward, without undo or restart, until it enters
\* level 5.
LevelChangeNext ==
  /\ level # 5
  /\ \/ \E numberObj \in SeqToSet(availableNumbers) : selectNumber(numberObj)
     \/ \E operation \in Operations : selectOperation(operation)
     \/ handleClear
     \/ invalidTimerFires
     \/ showTimerFires
     \/ handleNextLevel
     \/ \E l \in SessionLevels : nextLevel(l)
     \/ \E i \in DOMAIN tasks, ok \in BOOLEAN : getItemSettles(i, ok)
     \/ \E i \in DOMAIN tasks, ok \in BOOLEAN : setItemSettles(i, ok)
LevelChangeSpec == LevelChangeInit /\ [][LevelChangeNext]_vars


\* ------------------------------------------------- repeated confirmations
\* The game screen mounted at level 2, the next-level button tapped up to
\* MaxOverlap times before the level changes, on a storage of which up to
\* MaxFaults operations fail.
DoubleTapInit == InitWith({2}, 0..MaxFaults, {Overlapping})
DoubleTapSpec == DoubleTapInit /\ [][Next]_vars

\* --------------------------------------------- overlapping storage calls
\* Direct callers of addCompletedLevel that do not wait for one another, on
\* a storage that works.
OverlapInit == InitWith({1}, {0}, {Overlapping})

OverlapNext ==
  \/ \E lvl \in 1..MaxStoredLevel : clientCalls("addCompletedLevel", lvl)
  \/ \E i \in DOMAIN tasks, ok \in BOOLEAN : getItemSettles(i, ok)
  \/ \E i \in DOMAIN tasks, ok \in BOOLEAN : setItemSettles(i, ok)

OverlapSpec == OverlapInit /\ [][OverlapNext]_vars

\* ================================================================ claims
Last(s) == s[Len(s)]
\* Some active tile's value equals the target.
TargetPresent ==
  \E i \in DOMAIN availableNumbers : availableNumbers[i].value = targetNumber
SelectionEmpty ==
  /\ selectedNumber1 = NullTile
  /\ selectedOperation = NoOperation
  /\ selectedNumber2 = NullTile
\* The puzzle as it was loaded for the level.
Original == generatePuzzle(level)
\* Every id held by a tile of the session: active, in a snapshot or original.
HeldIds ==
  Ids(availableNumbers) \cup Ids(originalPuzzle.numbers)
  \cup UNION {Ids(gameHistory[i].numbers) : i \in DOMAIN gameHistory}
\* The step is selectNumber(t) and goes through as a reduction.
Reduces(t) == selectNumber(t) /\ lastOp' = "reduce"
\* The result of the reduction that picking t as second operand performs.
ResultWith(t) ==
  gameLogic_performCalculation(selectedNumber1.value, selectedOperation, t.value)

\* C1: after every tile-set-mutating operation (reduction, undo, restart)
\* gameWon is true if and only if some active tile's value equals the target.
\* The code violates it: undoing the winning reduction leaves gameWon true.
C1_WonIffTargetPresent ==
  lastOp \in {"reduce", "undo", "restart"} => (gameWon <=> TargetPresent)

\* C2: the invalid-move timer never clears a selection made after the invalid
\* move: when it fires, either the invalid signal is still up (the selection
\* is the rejected one) or there is no selection.  The code violates it: the
\* timeout is never cancelled.
C2_TimerSparesNewerSelection ==
  [][invalidTimerFires => (invalidOperation \/ selectedNumber1 = NullTile)]_vars

\* C3: once gameWon is true it stays true through every action except a
\* restart and the load of another level.
C3_WonMonotone ==
  [][(gameWon /\ ~gameWon') => (lastOp' = "restart" \/ level' # level)]_vars
\* gameWon has survived the undo of the winning reduction.
C3_Witness == gameWon /\ ~TargetPresent /\ lastOp = "undo"

\* C4: undo applied right after a successful reduction restores the tile set
\* (ids, values, positions) and the grid size the reduction started from,
\* leaves the selection Empty and shortens the history by exactly one.
C4_UndoInvertsReduce ==
  [][(lastOp = "reduce" /\ pre # <<>> /\ undoLastMove)
       => /\ availableNumbers' = pre[1].numbers
          /\ initialGridSize' = pre[1].gridSize
          /\ SelectionEmpty'
          /\ ~invalidOperation'
          /\ Len(gameHistory') = Len(gameHistory) - 1]_vars
\* The second reduction in a row has just been undone.
C4_Witness ==
  /\ lastOp = "undo"
  /\ pre # <<>>
  /\ Len(pre[1].history) = 1
  /\ availableNumbers = pre[1].numbers
  /\ Len(gameHistory) = 1

\* C5: k >= 1 reductions from a freshly loaded puzzle (picks, clears and
\* invalid moves in between) followed by k undos leave the original tiles,
\* the original grid size and an empty history.
C5_UndoAllRestoresOriginal ==
  (run.phase = "undoing" /\ run.reds >= 1 /\ run.owed = 0)
    => /\ availableNumbers = Original.numbers
       /\ initialGridSize = Len(Original.numbers)
       /\ gameHistory = <<>>
\* Three reductions, then three undos.
C5_Witness ==
  /\ run.phase = "undoing"
  /\ run.reds = 3
  /\ run.owed = 0
  /\ lastOp = "undo"
  /\ availableNumbers = Original.numbers

\* What restart leaves, but for the won flag.
RestartResets ==
  /\ availableNumbers = Original.numbers
  /\ initialGridSize = Len(Original.numbers)
  /\ targetNumber = Original.target
  /\ gameHistory = <<>>
  /\ SelectionEmpty
  /\ ~invalidOperation
\* A second restart right after a restart changes nothing of the session.
RestartIdempotent ==
  [][(lastOp = "restart" /\ restartLevel) => sessionVars' = sessionVars]_vars

\* C6 as stated: restart resets tiles, grid size, history and selection and
\* sets won to false, and is idempotent.
C6_RestartClearsWon ==
  [](lastOp = "restart" => (RestartResets /\ gameWon = FALSE)) /\ RestartIdempotent
\* C6 as amended: restart resets tiles, grid size, history and selection; won
\* is false unless a tile of the original puzzle equals the target, in which
\* case the win check sets it again; restart is idempotent.
C6_RestartResets ==
  /\ [](lastOp = "restart"
          => /\ RestartResets
             /\ gameWon <=> (\E i \in DOMAIN Original.numbers :
                               Original.numbers[i].value = Original.target))
  /\ RestartIdempotent
\* A restart of a puzzle whose original tiles hold the target.
C6_Witness == lastOp = "restart" /\ gameWon /\ RestartResets

\* C7: a successful reduction lowers the number of active tiles by exactly 1
\* when its result is greater than 0 and by exactly 2 when it is 0; a pick,
\* an operation pick, a clear and an invalid move leave it unchanged.
C7_TileCount ==
  [][/\ \A t \in SeqToSet(availableNumbers) :
          Reduces(t) => Len(availableNumbers') =
                          Len(availableNumbers) - (IF ResultWith(t) > 0 THEN 1 ELSE 2)
     /\ lastOp' \in {"pick", "operation", "clear", "invalid"}
          => Len(availableNumbers') = Len(availableNumbers)]_vars
\* A reduction with result 0 has removed two tiles.
C7_Witness ==
  /\ lastOp = "reduce"
  /\ Last(gameHistory).result = 0
  /\ Len(availableNumbers) = Len(Last(gameHistory).numbers) - 2

\* The second operand t is picked for a division that is not exact.
InvalidPick(t) ==
  /\ selectedNumber1 # NullTile
  /\ selectedOperation = "/"
  /\ selectedNumber2 = NullTile
  /\ t.id # selectedNumber1.id
  /\ ~validateDivision(selectedNumber1.value, t.value)

\* C8: an inexact division consumes no tile and pushes no snapshot, raises
\* the invalid signal and keeps the selection (T, divide, T2); the timer
\* firing right after it empties the selection and clears the signal.
C8_InvalidDivision ==
  [][/\ \A t \in SeqToSet(availableNumbers) :
          (InvalidPick(t) /\ selectNumber(t))
            => /\ availableNumbers' = availableNumbers
               /\ gameHistory' = gameHistory
               /\ invalidOperation'
               /\ selectedNumber1' = selectedNumber1
               /\ selectedOperation' = "/"
               /\ selectedNumber2' = t
     /\ (lastOp = "invalid" /\ invalidTimerFires)
          => /\ SelectionEmpty'
             /\ ~invalidOperation'
             /\ availableNumbers' = availableNumbers
             /\ gameHistory' = gameHistory]_vars
\* The invalid signal is up with the rejected selection on display.
C8_Witness ==
  /\ invalidOperation
  /\ selectedOperation = "/"
  /\ selectedNumber1 # NullTile
  /\ selectedNumber2 # NullTile
  /\ ~validateDivision(selectedNumber1.value, selectedNumber2.value)
  /\ lastOp = "invalid"

\* C9: a reduction of T and T2 with result > 0 removes both, inserts exactly
\* one tile with the result as value, a fresh id and T's position (T2's slot
\* is left empty), pushes one snapshot with the tiles before the move, both
\* operands, the operation and the result, and leaves the selection Empty.
C9_Reduction ==
  [][\A t \in SeqToSet(availableNumbers) :
       (Reduces(t) /\ ResultWith(t) > 0)
         => LET old == SeqToSet(availableNumbers)
                new == SeqToSet(availableNumbers')
            IN /\ selectedNumber1 \notin new
               /\ t \notin new
               /\ old \ {selectedNumber1, t} \subseteq new
               /\ Len(availableNumbers') = Len(availableNumbers) - 1
               /\ Cardinality(new \ old) = 1
               /\ \A n \in new \ old :
                    /\ n.value = ResultWith(t)
                    /\ n.position = selectedNumber1.position
                    /\ n.id \notin HeldIds
               /\ \A n \in new : n.position # t.position
               /\ gameHistory' = Append(gameHistory,
                     [numbers |-> availableNumbers,
                      gridSize |-> initialGridSize,
                      num1 |-> selectedNumber1,
                      num2 |-> t,
                      operation |-> selectedOperation,
                      result |-> ResultWith(t)])
               /\ SelectionEmpty'
               /\ ~invalidOperation']_vars
\* Scenario 1: {target 3, tiles [6, 2, 4]}, 6 / 2: the 3 stands in the slot of
\* the 6, the 4 in its own, and the puzzle is won.
C9_Witness ==
  /\ level = 1
  /\ lastOp = "reduce"
  /\ Len(gameHistory) = 1
  /\ {[value |-> n.value, position |-> n.position] : n \in SeqToSet(availableNumbers)}
       = {[value |-> 3, position |-> 0], [value |-> 4, position |-> 2]}
  /\ gameWon

\* C10: a reduction with result 0 removes both operands and inserts nothing,
\* still pushes a snapshot, and sets won only if a remaining tile equals the
\* target; on the fresh puzzle {target 10, tiles [5, 5]} the subtraction
\* leaves no tile and won false.
C10_ZeroResult ==
  /\ [][\A t \in SeqToSet(availableNumbers) :
          (Reduces(t) /\ ResultWith(t) = 0)
            => /\ SeqToSet(availableNumbers') =
                    SeqToSet(availableNumbers) \ {selectedNumber1, t}
               /\ Len(availableNumbers') = Len(availableNumbers) - 2
               /\ Len(gameHistory') = Len(gameHistory) + 1
               /\ Last(gameHistory').result = 0
               /\ Last(gameHistory').numbers = availableNumbers
               /\ (gameWon' => (gameWon \/ TargetPresent'))]_vars
  /\ [](( /\ level = 2
          /\ run.phase = "reducing"
          /\ run.reds = 1
          /\ Last(gameHistory).operation = "-")
          => (availableNumbers = <<>> /\ ~gameWon))
\* Scenario 2: the two 5s subtracted on the fresh puzzle.
C10_Witness ==
  /\ level = 2
  /\ lastOp = "reduce"
  /\ run.reds = 1
  /\ Last(gameHistory).result = 0
  /\ availableNumbers = <<>>
  /\ ~gameWon

\* ---------------------------------------------------------------- C11
\* C11: in every reachable session state at most one active tile occupies any
\* given position, and every active tile's position is less than the initial
\* tile count of the puzzle.
C11_PositionsDistinct ==
  /\ \A i, j \in DOMAIN availableNumbers :
       availableNumbers[i].position = availableNumbers[j].position => i = j
  /\ \A i \in DOMAIN availableNumbers :
       /\ availableNumbers[i].position >= 0
       /\ availableNumbers[i].position < Len(originalPuzzle.numbers)
       /\ availableNumbers[i].position < initialGridSize
\* A reduction has left two tiles, the result in a slot that is not its index.
C11_Witness ==
  /\ lastOp = "reduce"
  /\ Len(availableNumbers) = 2
  /\ Last(availableNumbers).position = 0
  /\ availableNumbers[1].position = 1

\* ---------------------------------------------------------------- C12
\* The step is a successful reduction, an undo that pops, a reset.
IsReduction == \E t \in SeqToSet(availableNumbers) : Reduces(t)
IsUndo == undoLastMove /\ lastOp' = "undo"
IsReset == restartLevel \/ (level' # level)
\* C12 as stated: the history length equals the number of successful
\* reductions since the last reset (restart or new puzzle).  That count is 0
\* when the puzzle is loaded, grows by one with each reduction, returns to 0
\* with a reset and changes with no other step; the history length equals it
\* in every state exactly when it changes the same way.  Undo refutes it.
C12_HistoryCountsReductions ==
  /\ Len(gameHistory) = 0
  /\ [][Len(gameHistory') = IF IsReset THEN 0
                            ELSE IF IsReduction THEN Len(gameHistory) + 1
                            ELSE Len(gameHistory)]_vars
\* C12 amended: the history length equals the number of successful
\* reductions minus the number of undos since the last reset.
C12_HistoryCountsNetReductions ==
  /\ Len(gameHistory) = 0
  /\ [][Len(gameHistory') = IF IsReset THEN 0
                            ELSE IF IsReduction THEN Len(gameHistory) + 1
                            ELSE IF IsUndo THEN Len(gameHistory) - 1
                            ELSE Len(gameHistory)]_vars
\* Two reductions and one undo since the puzzle was loaded.
C12_Witness ==
  /\ lastOp = "undo"
  /\ Len(gameHistory) = 1
  /\ Len(availableNumbers) = Len(originalPuzzle.numbers) - 1
  /\ Len(originalPuzzle.numbers) = 4

\* ---------------------------------------------------------------- C13
Larger(a, b) == IF a >= b THEN a ELSE b
Smaller(a, b) == IF a <= b THEN a ELSE b
\* C13: for all positive integers a, b, validateDivision(a, b) is true iff
\* max(a,b) mod min(a,b) = 0; performCalculation(a, '/', b) returns
\* max(a,b)/min(a,b) exactly when validateDivision(a, b) is true and null
\* otherwise; if either operand is 0 the division is rejected.
C13_Division ==
  /\ (call.fn = "validateDivision" /\ call.num1 > 0 /\ call.num2 > 0)
       => (call.out <=> (Larger(call.num1, call.num2)
                           % Smaller(call.num1, call.num2) = 0))
  /\ (call.fn = "validateDivision" /\ call.num1 >= 0 /\ call.num2 >= 0
        /\ (call.num1 = 0 \/ call.num2 = 0))
       => call.out = FALSE
  /\ (call.fn = "performCalculation" /\ call.operation = "/"
        /\ call.num1 >= 0 /\ call.num2 >= 0)
       => IF validateDivision(call.num1, call.num2)
          THEN /\ call.num1 > 0 /\ call.num2 > 0
               /\ call.out # NullResult
               /\ call.out * Smaller(call.num1, call.num2)
                    = Larger(call.num1, call.num2)
          ELSE call.out = NullResult
\* The smaller operand given first: 2 / 6 is 3.
C13_Witness ==
  /\ call.fn = "performCalculation" /\ call.operation = "/"
  /\ call.num1 = 2 /\ call.num2 = 6 /\ call.out = 3

\* ---------------------------------------------------------------- C14
\* C14: for all integers a, b, performCalculation(a, '-', b) equals |a - b|
\* and is never negative.
C14_Subtraction ==
  (call.fn = "performCalculation" /\ call.operation = "-")
    => /\ call.out >= 0
       /\ call.out = call.num1 - call.num2 \/ call.out = call.num2 - call.num1
\* A smaller, negative first operand: -3 - 2 is 5.
C14_Witness ==
  /\ call.fn = "performCalculation" /\ call.operation = "-"
  /\ call.num1 = 0 - 3 /\ call.num2 = 2 /\ call.out = 5

\* ---------------------------------------------------------------- C18
Values(numbers) == [i \in DOMAIN numbers |-> numbers[i].value]
\* C18: for every level number n with no authored data, generatePuzzle(n)
\* returns four tiles with values [2,3,4,5] each increased by (n mod 5),
\* positions 0..3 in order, pairwise distinct ids, and target equal to the
\* sum of the first two values (for n = 9999: values [6,7,8,9], target 13);
\* the values and target depend only on n mod 5.
C18_FallbackPuzzle ==
  (call.fn = "generatePuzzle" /\ ~levelExists(call.levelNum))
    => LET r == call.levelNum % 5
           numbers == call.out.numbers
       IN /\ Values(numbers) = <<2 + r, 3 + r, 4 + r, 5 + r>>
          /\ \A i \in DOMAIN numbers : numbers[i].position = i - 1
          /\ \A i, j \in DOMAIN numbers : numbers[i].id = numbers[j].id => i = j
          /\ call.out.target = numbers[1].value + numbers[2].value
          /\ call.out.target = 5 + 2 * r
          /\ call.levelNum = 9999
               => /\ Values(numbers) = <<6, 7, 8, 9>>
                  /\ call.out.target = 13
C18_Witness ==
  /\ call.fn = "generatePuzzle" /\ call.levelNum = 9999
  /\ call.out.target = 13

\* ---------------------------------------------------------------- C19
\* The completed levels as stored.
StoredCompleted == getCompletedLevels(TRUE, store.completedLevels)
C20_RejectsAndDefaults ==
  /\ []((ret.fn \in {"setCurrentLevel", "addCompletedLevel"} /\ ret.level < 1)
          => ret.outcome = "rejected")
  /\ []((ret.fn = "getCurrentLevel" /\ ret.read \in {"absent", "failed"})
          => (ret.outcome = "resolved" /\ ret.value = 1))
  /\ []((ret.fn = "getCompletedLevels" /\ ret.read \in {"absent", "failed"})
          => (ret.outcome = "resolved" /\ ret.list = <<>>))
  /\ [][\A fn \in {"setCurrentLevel", "addCompletedLevel"} :
          \A n \in StoredLevels :
            (n < 1 /\ clientCalls(fn, n))
            => /\ store' = store
               /\ tasks' = tasks
               /\ ret'.fn = fn /\ ret'.level = n
               /\ ret'.outcome = "rejected"]_vars
\* A level is stored and its read fails: getCurrentLevel gives 1.
C20_Witness ==
  /\ ret.fn = "getCurrentLevel" /\ ret.read = "failed" /\ ret.value = 1
  /\ store.currentLevel = Item(toString(2))

\* ---------------------------------------------------------------- C15
\* The onLevelComplete calls a nextLevel call has made.
Notifications(log) == SelectSeq(log, LAMBDA e : e[1] = "onLevelComplete")
\* C15: if addCompletedLevel or setCurrentLevel fails (rejects) during win
\* confirmation at level L, the in-memory level still becomes L+1, the
\* caller is notified via onLevelComplete(L+1) exactly once, and no error
\* propagates out of nextLevel (the call returns).
C15_AdvancesWhenStorageFails ==
  /\ [](lastNext.failed
          => /\ lastNext.newLevel = lastNext.level + 1
             /\ Notifications(lastNext.log)
                  = <<<<"onLevelComplete", lastNext.level + 1>>>>)
  /\ [][\A i \in DOMAIN tasks :
          (tasks[i].caller = "nextLevel" /\ setItemSettles(i, FALSE))
          => /\ level' = tasks[i].closure + 1
             /\ lastNext'.failed
             /\ lastNext'.level = tasks[i].closure
             /\ tasks' = Remove(tasks, i)]_vars
\* Level 2 was written as completed, the write of the current level failed,
\* and the session is at level 3.
C15_Witness ==
  /\ lastNext.failed /\ lastNext.level = 2
  /\ lastNext.log[1] = <<"addCompletedLevel", 2>>
  /\ StoredCompleted = <<2>>
  /\ ~store.currentLevel.present
  /\ level = 3

C17_ProgressionOrder ==
  (lastNext.level # 0 /\ ~lastNext.failed)
    => lastNext.log = <<<<"addCompletedLevel", lastNext.level>>,
                        <<"setLevel", lastNext.level + 1>>,
                        <<"setCurrentLevel", lastNext.level + 1>>,
                        <<"onLevelComplete", lastNext.level + 1>>>>

\* ---------------------------------------------------------------- C21
\* The selection states before the second tile is picked.
FirstPicked(t) ==
  selectedNumber1 = t /\ selectedOperation = NoOperation /\ selectedNumber2 = NullTile
FirstAndOperation(t, op) ==
  selectedNumber1 = t /\ selectedOperation = op /\ selectedNumber2 = NullTile
InFirstPicked == selectedNumber1 # NullTile /\ FirstPicked(selectedNumber1)
InFirstAndOperation ==
  /\ selectedNumber1 # NullTile /\ selectedOperation # NoOperation
  /\ selectedNumber2 = NullTile
\* What a pick before the second tile leaves alone.
BoardUnchanged ==
  UNCHANGED <<availableNumbers, gameHistory, gameWon, initialGridSize,
              targetNumber, level, invalidOperation>>
\* C21: selection transitions before the second tile is picked follow the
\* stated machine and change nothing else: Empty + pick T gives
\* FirstPicked(T); FirstPicked(T) + pick T2 gives FirstPicked(T2);
\* FirstPicked(T) + pick Op gives FirstAndOperation(T, Op);
\* FirstAndOperation(T, Op) + pick Op2 gives FirstAndOperation(T, Op2); in
\* all four the tile set, history and won flag are unchanged.
C21_SelectionMachine ==
  [][/\ \A t \in SeqToSet(availableNumbers) :
          ((SelectionEmpty \/ InFirstPicked) /\ selectNumber(t))
          => (FirstPicked(t)' /\ BoardUnchanged)
     /\ \A op \in Operations :
          ((InFirstPicked \/ InFirstAndOperation) /\ selectOperation(op))
          => /\ selectedNumber1' = selectedNumber1
             /\ selectedOperation' = op
             /\ selectedNumber2' = NullTile
             /\ BoardUnchanged]_vars
\* The operation re-picked after one reduction: the first tile is the
\* result tile and the operation is the second one chosen.
C21_Witness ==
  /\ lastOp = "operation"
  /\ InFirstAndOperation
  /\ selectedOperation = "*"
  /\ Len(gameHistory) = 1
  /\ selectedNumber1 = Last(availableNumbers)

\* ---------------------------------------------------------------- C22
\* C22: the clear action from any selection state yields the Empty selection
\* (no first tile, no operation, no second tile, invalid signal off) and
\* leaves the tile set, history, grid size, target and won flag unchanged.
\* With no first tile the clear button does nothing, and the selection is
\* Empty with the signal off already.
C22_ClearEmptiesSelection ==
  /\ [](selectedNumber1 = NullTile => (SelectionEmpty /\ ~invalidOperation))
  /\ [][handleClear
        => /\ SelectionEmpty'
           /\ invalidOperation' = FALSE
           /\ UNCHANGED <<availableNumbers, gameHistory, initialGridSize,
                          targetNumber, gameWon>>]_vars
\* Cleared while the invalid signal of a rejected division was on, with a
\* reduction in the history.
C22_Witness ==
  /\ lastOp = "clear"
  /\ SelectionEmpty /\ ~invalidOperation
  /\ invalidTimers = 1
  /\ Len(gameHistory) = 1

\* ---------------------------------------------------------------- C23
\* C23: undo with an empty history is a no-op: tile set, grid size, history
\* and the current selection are all unchanged; with a non-empty history it
\* pops exactly the last snapshot, restores the tile set and grid size from
\* it and clears the selection.
C23_Undo ==
  [][undoLastMove
     => IF Len(gameHistory) = 0
        THEN UNCHANGED <<availableNumbers, initialGridSize, gameHistory,
                         selectedNumber1, selectedOperation, selectedNumber2,
                         invalidOperation>>
        ELSE /\ gameHistory' = SubSeq(gameHistory, 1, Len(gameHistory) - 1)
             /\ availableNumbers' = Last(gameHistory).numbers
             /\ initialGridSize' = Last(gameHistory).gridSize
             /\ SelectionEmpty' /\ invalidOperation' = FALSE]_vars
\* The third of three reductions undone.
C23_Witness ==
  /\ lastOp = "undo"
  /\ Len(gameHistory) = 2
  /\ Len(availableNumbers) = 2
  /\ SelectionEmpty

\* ---------------------------------------------------------------- C29
\* C29: in state FirstAndOperation(T, Op), picking the tile T itself (same
\* id) is a no-op: no calculation is performed, tile set and history are
\* unchanged and the selection stays FirstAndOperation(T, Op); picking an
\* operation in state Empty is likewise a no-op.
C29_IgnoredPicks ==
  [][((InFirstAndOperation /\ selectNumber(selectedNumber1))
       \/ (SelectionEmpty /\ \E op \in Operations : selectOperation(op)))
     => UNCHANGED <<availableNumbers, gameHistory, gameWon, initialGridSize,
                    selectedNumber1, selectedOperation, selectedNumber2,
                    invalidOperation, invalidTimers>>]_vars
\* FirstAndOperation(T, -) with the buttons in reach: T can be picked again.
C29_Witness ==
  /\ InFirstAndOperation
  /\ selectedOperation = "-"
  /\ ModalHidden
  /\ \E i \in DOMAIN availableNumbers : availableNumbers[i].id = selectedNumber1.id
  /\ lastOp = "operation"
  /\ Len(gameHistory) = 0

\* ---------------------------------------------------------------- C26
\* The snapshots of the history whose reduction gave 0.
ZeroSnapshots == {i \in DOMAIN gameHistory : gameHistory[i].result = 0}
\* C26: history pushes and tile-set mutations of one reduction are atomic
\* with respect to observation: in every observable state the active tile
\* count equals the initial tile count minus the history length minus the
\* number of snapshots in history whose result is 0.
C26_TileCountFromHistory ==
  Len(availableNumbers)
    = Len(originalPuzzle.numbers) - Len(gameHistory) - Cardinality(ZeroSnapshots)
\* Four tiles, two reductions, the second one giving 0: one tile is left.
C26_Witness ==
  /\ lastOp = "reduce"
  /\ Len(originalPuzzle.numbers) = 4
  /\ Len(gameHistory) = 2
  /\ ZeroSnapshots = {2}
  /\ Len(availableNumbers) = 1

\* ---------------------------------------------------------------- C27
\* C27: when every tile of the original puzzle has a positive integer value,
\* every active tile in every reachable state has a positive integer value,
\* and a reduction yields result 0 only for the subtract operation applied to
\* two tiles of equal value.
C27_ValuesPositive ==
  /\ []((\A i \in DOMAIN originalPuzzle.numbers : originalPuzzle.numbers[i].value > 0)
        => (\A i \in DOMAIN availableNumbers : availableNumbers[i].value > 0))
  /\ [][\A t \in SeqToSet(availableNumbers) :
          (Reduces(t) /\ Last(gameHistory').result = 0)
          => /\ selectedOperation = "-"
             /\ selectedNumber1.value = t.value
             /\ Len(availableNumbers') = Len(availableNumbers) - 2]_vars
\* Two equal tiles subtracted while a third tile stays.
C27_Witness ==
  /\ lastOp = "reduce"
  /\ Last(gameHistory).result = 0
  /\ Last(gameHistory).operation = "-"
  /\ Last(gameHistory).num1.value = Last(gameHistory).num2.value
  /\ Len(availableNumbers) = 1
  /\ availableNumbers[1].value > 0

\* ---------------------------------------------------------------- C28
\* C28: a reduction removes exactly the two picked tiles, identified by id,
\* and leaves the id, value and position of every other active tile
\* unchanged, even when other tiles have the same value as an operand.
C28_RemovesByIdOnly ==
  [][\A t \in SeqToSet(availableNumbers) :
       Reduces(t)
       => LET picked == {selectedNumber1.id, t.id}
              others == {n \in SeqToSet(availableNumbers) : n.id \notin picked}
          IN /\ Cardinality(picked) = 2
             /\ Ids(availableNumbers') \cap picked = {}
             /\ others \subseteq SeqToSet(availableNumbers')
             /\ Cardinality(SeqToSet(availableNumbers') \ others) <= 1
             /\ Ids(availableNumbers') \cap Ids(availableNumbers) = {n.id : n \in others}]_vars
\* A tile that was not picked survives a reduction one of whose operands
\* had its value.
C28_Witness ==
  /\ lastOp = "reduce"
  /\ Len(pre) = 1
  /\ \E i \in DOMAIN availableNumbers :
       /\ availableNumbers[i] \in SeqToSet(pre[1].numbers)
       /\ availableNumbers[i].id # Last(gameHistory).num1.id
       /\ availableNumbers[i].id # Last(gameHistory).num2.id
       /\ availableNumbers[i].value \in {Last(gameHistory).num1.value,
                                         Last(gameHistory).num2.value}

\* ---------------------------------------------------------------- C30
\* C30: all four operations are symmetric in their operands: for all
\* positive integers a, b and every operation op, performCalculation(a, op, b)
\* = performCalculation(b, op, a) and validateDivision(a, b) =
\* validateDivision(b, a); so which tile is picked first never changes the
\* value of the result.  Every recorded call on positive operands is compared
\* with the function applied to the operands in the other order.
C30_OperandSymmetry ==
  (call.fn \in {"performCalculation", "validateDivision"}
     /\ call.num1 > 0 /\ call.num2 > 0)
  => IF call.fn = "performCalculation"
     THEN call.out = gameLogic_performCalculation(call.num2, call.operation, call.num1)
     ELSE call.out = validateDivision(call.num2, call.num1)
\* The smaller operand given first to a division that goes through.
C30_Witness ==
  /\ call.fn = "performCalculation"
  /\ call.operation = "/"
  /\ call.num1 = 2 /\ call.num2 = 6
  /\ call.out = 3

\* ---------------------------------------------------------------- C24
\* The candidates of a hint: pairs i < j in index order with an operation
\* (by its place in +, -, *, /) whose result is valid.
HintCandidates(numbers) ==
  {c \in (DOMAIN numbers) \X (DOMAIN numbers) \X (DOMAIN operations) :
     /\ c[1] < c[2]
     /\ gameLogic_performCalculation(numbers[c[1]].value, operations[c[3]],
                                     numbers[c[2]].value) # NullResult}
HintResult(numbers, c) ==
  gameLogic_performCalculation(numbers[c[1]].value, operations[c[3]],
                               numbers[c[2]].value)
\* c comes before d in iteration order.
HintBefore(c, d) ==
  \/ c[1] < d[1]
  \/ c[1] = d[1] /\ c[2] < d[2]
  \/ c[1] = d[1] /\ c[2] = d[2] /\ c[3] < d[3]
HintFor(numbers, c) ==
  [num1 |-> numbers[c[1]].value,
   symbol |-> getOperationSymbol(operations[c[3]]),
   num2 |-> numbers[c[2]].value,
   result |-> HintResult(numbers, c)]
\* C24: generateHint is a pure query that returns null when fewer than two
\* tiles exist and otherwise describes the pair (i < j in index order) and
\* operation whose valid result minimises |result - target| over all pairs
\* and all four operations, ties being won by the first candidate in
\* iteration order (pair index order, then +, -, *, /); it never changes
\* tiles, selection or history.
C24_Hint ==
  /\ [](call.fn = "generateHint"
        => LET numbers == call.availableNumbers
               target == call.targetNumber
           IN IF Len(numbers) < 2
              THEN call.out = NoHint
              ELSE \E c \in HintCandidates(numbers) :
                     /\ \A d \in HintCandidates(numbers) :
                          LET dc == Abs(HintResult(numbers, c) - target)
                              dd == Abs(HintResult(numbers, d) - target)
                          IN dc < dd \/ (dc = dd /\ ~HintBefore(d, c))
                     /\ call.out = HintFor(numbers, c))
  /\ [][call'.fn = "generateHint"
        => UNCHANGED <<availableNumbers, selectedNumber1, selectedOperation,
                       selectedNumber2, gameHistory>>]_vars
\* Three candidates reach the target 3 from the tiles 1, 3, 2: 1 * 3, 1 / 3
\* and 1 + 2; the first of them in iteration order is the hint.
C24_Witness ==
  /\ call.fn = "generateHint"
  /\ Values(call.availableNumbers) = <<1, 3, 2>>
  /\ call.targetNumber = 3
  /\ call.out = [num1 |-> 1, symbol |-> "U+00D7", num2 |-> 3, result |-> 3]

\* ---------------------------------------------------------------- C25
\* The grid the game screen has on display.
DisplayGrid == createDisplayGrid(availableNumbers, initialGridSize)
\* C25: for every initial tile count n in 1..9, createDisplayGrid returns
\* cols = 2 for n <= 4 and 3 otherwise, a grid of length cols*rows equal to
\* the 2x2 / 3x2 / 3x3 shape of getGridDimensions(n), with each active tile
\* placed at index tile.position and every other slot empty; in every
\* reachable session state no active tile is dropped from the grid (every
\* position is < grid length).
C25_DisplayGrid ==
  /\ (call.fn = "createDisplayGrid" /\ call.initialGridSize \in 1..9)
     => LET n == call.initialGridSize
            tiles == call.availableNumbers
            grid == call.out.grid
        IN /\ call.out.cols = IF n <= 4 THEN 2 ELSE 3
           /\ call.dimensions = IF n <= 4 THEN [cols |-> 2, rows |-> 2]
                                ELSE IF n <= 6 THEN [cols |-> 3, rows |-> 2]
                                ELSE [cols |-> 3, rows |-> 3]
           /\ Len(grid) = call.dimensions.cols * call.dimensions.rows
           /\ \A i \in DOMAIN tiles : grid[tiles[i].position + 1] = tiles[i]
           /\ \A p \in DOMAIN grid :
                (\A i \in DOMAIN tiles : tiles[i].position # p - 1)
                => grid[p] = NullTile
  /\ \A i \in DOMAIN availableNumbers :
       /\ availableNumbers[i].position >= 0
       /\ availableNumbers[i].position < Len(DisplayGrid.grid)
       /\ DisplayGrid.grid[availableNumbers[i].position + 1] = availableNumbers[i]
\* Two tiles left of a puzzle of five: a 3x2 grid with the tiles in slots 1
\* and 4 and the other four slots empty.
C25_Witness ==
  /\ call.fn = "createDisplayGrid"
  /\ call.initialGridSize = 5
  /\ Len(call.availableNumbers) = 2
  /\ call.out.cols = 3
  /\ Len(call.out.grid) = 6
  /\ call.out.grid[2] # NullTile /\ call.out.grid[5] # NullTile
  /\ call.out.grid[1] = NullTile /\ call.out.grid[6] = NullTile

\* ---------------------------------------------------------------- C32
\* C32: in every reachable session state the selection is well-formed: an
\* operation is selected only if a first tile is selected, a second tile is
\* selected only if an operation is selected, and every selected tile (first
\* or second) is a member of the current active tile set.
C32_SelectionWellFormed ==
  /\ selectedOperation # NoOperation => selectedNumber1 # NullTile
  /\ selectedNumber2 # NullTile => selectedOperation # NoOperation
  /\ selectedNumber1 # NullTile => selectedNumber1 \in SeqToSet(availableNumbers)
  /\ selectedNumber2 # NullTile => selectedNumber2 \in SeqToSet(availableNumbers)
\* All three parts of the selection held at once, after a reduction: the
\* rejected division of the result tile by another tile.
C32_Witness ==
  /\ selectedNumber1 # NullTile /\ selectedNumber2 # NullTile
  /\ selectedOperation = "/"
  /\ invalidOperation
  /\ Len(gameHistory) = 1
  /\ selectedNumber1 = Last(availableNumbers)

\* ---------------------------------------------------------------- C33
\* C33: the level-complete acknowledgment (showLevelComplete) is visible only
\* while some active tile's value equals the target: the 800 ms show-timer
\* started on a win never makes it visible after the winning move was
\* undone, the level was restarted, or a new level was loaded.  The code
\* violates it: the timeout is never cancelled and its callback does not
\* look at the tiles.
C33_ModalOnlyWithTarget == showLevelComplete => TargetPresent

\* ---------------------------------------------------------------- C36
\* C36: when two addCompletedLevel calls for different levels overlap (each
\* reads the stored list, then writes it back), no update is lost: once both
\* have completed the stored list contains both levels, sorted and without
\* duplicates.  The code violates it: both calls read the list before
\* either writes, and the later write drops the level of the earlier one.
C36_NoLostUpdate ==
  tasks = <<>>
  => /\ added \subseteq SeqToSet(StoredCompleted)
     /\ \A i, j \in DOMAIN StoredCompleted :
          i < j => StoredCompleted[i] < StoredCompleted[j]

\* ---------------------------------------------------------------- C35
\* C35: repeated confirmations of the same completion (the next-level button
\* tapped more than once before the level change takes effect, each delayed
\* 100 ms and awaiting storage) advance the in-memory level by exactly one in
\* total, from L to L+1: the level only ever changes from L to L+1, and
\* every nextLevel call confirming level L leaves the level at L+1 when it
\* returns.
C35_AdvancesByOne ==
  /\ [](lastNext.level # 0 => level = lastNext.level + 1)
  /\ [][level' # level
        => /\ level' = level + 1
           /\ lastNext'.level = level]_vars
\* The second confirmation of level 2 returns after the player has made a
\* move at level 3: the level stays 3 and the puzzle is not loaded again.
C35_Witness ==
  /\ env.next >= 2
  /\ lastOp = "nextLevel"
  /\ lastNext.level = 2
  /\ level = 3
  /\ Len(gameHistory) = 1

\* ---------------------------------------------------------------- C34
\* C34: the session advances from level L to L+1 only after the level-L
\* puzzle has had an active tile equal to its target: a win of one level can
\* never advance the player by two levels.  Stated for play without restart,
\* where gameWon tells whether the puzzle has had such a tile.  The code
\* violates it: a second show-timer of level L fires after level L+1 was
\* loaded and shows the modal there.
C34_AdvanceOnlyAfterWin ==
  [][level' # level => gameWon]_vars

\* ---------------------------------------------------------------- C31
\* The current level as stored.
StoredLevel == getCurrentLevel(TRUE, store.currentLevel)
\* C31: after a level completion whose persistence failed, the
\* application's current level (App.currentLevel) equals the new in-memory
\* level L+1: it is not overwritten by the stale or default value re-read
\* from storage when handleLevelComplete calls initializeApp.  The code
\* violates it: initializeApp sets the current level to what it has read.
C31_AppLevelSurvivesFailure ==
  (lastNext.failed /\ level = lastNext.newLevel /\ tasks = <<>>)
  => app.currentLevel = level

\* ---------------------------------------------------------------- C37
\* C37: the persisted current level, and the application's current level
\* that unlocks levels (level <= currentLevel), never decreases: completing a
\* replayed earlier level L with L+1 < currentLevel does not lower the
\* current level.  The code violates it: nextLevel stores L+1 and notifies
\* App of L+1 whatever the current level is.
C37_CurrentLevelNeverDecreases ==
  [][/\ StoredLevel' >= StoredLevel
     /\ app'.currentLevel >= app.currentLevel]_vars

\* ---------------------------------------------------------------- C38
\* The session is as the puzzle load effect leaves it for its level.
SessionFresh ==
  /\ targetNumber = Original.target
  /\ availableNumbers = Original.numbers
  /\ initialGridSize = Len(Original.numbers)
  /\ originalPuzzle = Original
  /\ gameHistory = <<>>
  /\ SelectionEmpty
  /\ ~showLevelComplete
\* C38 as stated: whenever the session level changes, the session is fully
\* re-initialised from generatePuzzle(level): tiles, target, grid size and
\* original puzzle are the new puzzle's, history is empty, selection is
\* Empty, won is false and the level-complete acknowledgment is hidden.
C38_LevelChangeReinitialises ==
  [][level' # level => (SessionFresh' /\ ~gameWon')]_vars
\* C38 amended: the same, except that won is true when a tile of the new
\* puzzle already equals its target (the fallback puzzle of a level that is
\* a multiple of 5), the win check running right after the load.
C38_LevelChangeReinitialisesUnlessWon ==
  [][level' # level => (SessionFresh' /\ (gameWon' <=> TargetPresent'))]_vars
\* Level 4 has been completed after at least one reduction and the session
\* is at level 5, won on load.
C38_Witness ==
  /\ lastOp = "nextLevel"
  /\ lastNext.level = 4
  /\ level = 5
  /\ gameWon
  /\ SessionFresh
====
